---- MODULE Spec2Model ----
(***************************************************************************)
(* RTMP_Stream_Viewer (src/rtmp_stream_viewer.py).                         *)
(*                                                                         *)
(* Two state machines are modelled:                                        *)
(*   - the application: the main (GUI) thread of the __main__ block and    *)
(*     the VideoThread worker it starts (specifications Spec, FairSpec);   *)
(*   - the handshake listener: run_server and one handle_client coroutine  *)
(*     per accepted connection, stepped by a running asyncio event loop    *)
(*     (specification SpecHS).                                             *)
(*                                                                         *)
(* Time is kept in milliseconds by relative clocks that a Tick action      *)
(* advances; computation is instantaneous, only the blocking calls         *)
(* (cv2.VideoCapture(url), cap.read(), QThread.msleep) let time pass.      *)
(* Floating-point values (fps, bitrate) are exact rationals [n, d].        *)
(***************************************************************************)
EXTENDS Integers, Sequences, FiniteSets, TLC

\* ---------------------------------------------------------------- bounds
\* Granularity of the clock (ms per Tick); also the resolution of time.time().
TickMs == 500
\* Longest time cap.read() blocks before it returns a frame or fails (ms).
MaxInterval == 1000
\* The configured --fps-history-length (default 120 in parse_args).
fps_history_length == 2
\* Number of client connections the listener sees.
NumConns == 2
\* Where the model stops counting the frames queued for the GUI thread.
MaxPending == 3

\* ------------------------------------------------------ program constants
\* self.msleep(1000)
BackoffMs == 1000
\* reader.read(1536)
HandshakeSize == 1536
\* b'\x03'
RtmpVersion == 3
\* bitrate > 2000
MbpsThreshold == 2000

\* Sizes (cv_img.nbytes) of the frames the source delivers.
FrameSizes == {125000, 250000}
\* The TCP segments in which a client's bytes reach the reader, in order: the
\* 1536-byte hello and the 1536-byte ack, each split in two, the last segment
\* carrying the first byte of the chunk stream as well.  Segments that arrive
\* between two reads coalesce in the reader's buffer.
ClientSegments == <<500, 1036, 500, 1037>>
Conns == 1..NumConns

VARIABLES
    \* ---- VideoThread
    run_flag,       \* self._run_flag
    pc,             \* position of VideoThread.run
    fps_history,    \* self.fps_history: deque(maxlen) of fps samples
    frame_count,    \* local frame_count
    total_size,     \* local total_size
    capOpen,        \* whether a cv2.VideoCapture of this worker is open
    sincePrev,      \* time.time() - prev_time, in ms
    sleepLeft,      \* remaining ms of the msleep in progress
    emitted,        \* the signals emitted by the worker's latest step, in order
    pending,        \* frame signals queued for the GUI thread, not yet delivered
    \* ---- main thread
    guiPc,          \* position of the main thread
    loop_tasks,     \* tasks created on the asyncio loop and not yet run
    loop_running,   \* whether the asyncio event loop is being run
    listening,      \* whether asyncio.start_server has bound the listener
    \* ---- observers (history of the run, not program state)
    sinceStop,      \* ms since stop() was invoked (capped)
    stopAt,         \* the worker's position when stop() was invoked
    opensAfterStop, \* whether an open attempt started after stop() was invoked
    prevOpenFailed, \* whether the latest completed open attempt failed
    sinceFail,      \* ms since the latest failed open attempt (capped)
    resDebt,        \* successful opens minus resolution events, so far
    sessRes,        \* resolution events since the latest status=True (capped)
    lastStatus,     \* value of the latest status event, "none" before the first
    sessFrames,     \* frames read in the current session (capped)
    sessSamples,    \* fps samples admitted in the current session (capped)
    admittedDt,     \* the latest fps_history_length + 1 admitted intervals, ms
    winElapsed,     \* ms from the latest reset of the accumulators to prev_time
    sinceOpen,      \* ms from the open to the session's first frame
    \* ---- handshake listener, per connection
    hpc,            \* position of handle_client
    net,            \* the peer's side: "open", "eof" (FIN), "lost" (reset)
    segs,           \* number of the client's segments fed to the StreamReader
    rcvd,           \* bytes of the client's stream fed to the StreamReader
    consumed,       \* bytes of the client's stream returned by reader.read
    c1,             \* local c1
    c2,             \* local c2
    writes,         \* the writer.write calls made, in order
    closed          \* whether connection c's transport has been closed

vtVars == <<run_flag, pc, fps_history, frame_count, total_size, capOpen,
            sincePrev, sleepLeft, emitted>>
guiVars == <<guiPc, loop_tasks, loop_running, listening>>
obsVars == <<sinceStop, stopAt, opensAfterStop, prevOpenFailed, sinceFail>>
streamVars == <<resDebt, sessRes, lastStatus>>
sessVars == <<sessFrames, sessSamples, admittedDt, winElapsed, sinceOpen>>
evVars == <<streamVars, sessVars, pending>>
hsVars == <<hpc, net, segs, rcvd, consumed, c1, c2, writes, closed>>
vars == <<vtVars, guiVars, obsVars, evVars, hsVars>>

\* ------------------------------------------------------------- rationals
RECURSIVE Gcd(_, _)
Gcd(a, b) == IF b = 0 THEN a ELSE Gcd(b, a % b)

Rat(n, d) == LET g == Gcd(n, d) IN [n |-> n \div g, d |-> d \div g]

RatAdd(a, b) == Rat(a.n * b.d + b.n * a.d, a.d * b.d)

RECURSIVE RatSum(_)
RatSum(s) == IF s = <<>> THEN [n |-> 0, d |-> 1]
             ELSE RatAdd(Head(s), RatSum(Tail(s)))

\* k >= r for an integer k and a rational r
IntGeq(k, r) == k * r.d >= r.n

Min(a, b) == IF a < b THEN a ELSE b

\* an append that never evicts
DequeAppendNoEvict(q, x) == Append(q, x)

\* ------------------------------------------------------------ VideoThread
\* deque(maxlen=fps_history_length).append(x)
DequeAppend(q, x) ==
    IF fps_history_length = 0 THEN q
    ELSE IF Len(q) >= fps_history_length THEN Append(Tail(q), x)
    ELSE Append(q, x)

\* the rate per millisecond, not per second
InstantFpsPerMs(dt) == Rat(1, dt)

\* fps = 1.0 / (current_time - prev_time), the interval dt in ms
InstantFps(dt) == Rat(1000, dt)

\* the sum divided by the capacity of the deque, not by its length
AvgFpsByCapacity(q) == LET s == RatSum(q) IN Rat(s.n, s.d * fps_history_length)

\* avg_fps = sum(self.fps_history) / len(self.fps_history)
AvgFps(q) == LET s == RatSum(q) IN Rat(s.n, s.d * Len(q))

\* bitrate = (total_size * 8) / 1000
BitrateKbps(total) == Rat(total * 8, 1000)

\* the conversion applied from the threshold on
BitrateEventFromThreshold(total) ==
    LET kbps == BitrateKbps(total) IN
    IF kbps.n >= MbpsThreshold * kbps.d
    THEN [type |-> "bitrate", value |-> Rat(kbps.n, kbps.d * 1000), unit |-> "Mbps"]
    ELSE [type |-> "bitrate", value |-> kbps, unit |-> "kbps"]

\* if bitrate > 2000: bitrate /= 1000, "Mbps" else "kbps"
BitrateEvent(total) ==
    LET kbps == BitrateKbps(total) IN
    IF kbps.n > MbpsThreshold * kbps.d
    THEN [type |-> "bitrate", value |-> Rat(kbps.n, kbps.d * 1000), unit |-> "Mbps"]
    ELSE [type |-> "bitrate", value |-> kbps, unit |-> "kbps"]

StatusEvent(b) == [type |-> "status", value |-> b]
ResolutionEvent == [type |-> "resolution"]
FpsEvent(avg) == [type |-> "fps", value |-> avg]
FrameEvent(size) == [type |-> "frame", value |-> size]

\* the positions of the events of one type in a sequence of events
Of(evs, type) == {i \in DOMAIN evs : evs[i].type = type}
Has(evs, type) == Of(evs, type) # {}
\* the one event of a type in a sequence that holds one
The(evs, type) == evs[CHOOSE i \in Of(evs, type) : TRUE]
Last(q) == q[Len(q)]

\* the signals of a successful open, lines 64-72
OpenEvents == <<StatusEvent(TRUE), ResolutionEvent>>

\* the resolution emitted with every frame
FrameEventsWithResolution(avg, total, size, due) ==
    IF due THEN <<ResolutionEvent, FpsEvent(avg), BitrateEvent(total), FrameEvent(size)>>
    ELSE <<ResolutionEvent, FpsEvent(avg), FrameEvent(size)>>

\* the signals of one frame, lines 83-100; due: frame_count >= avg_fps
FrameEvents(avg, total, size, due) ==
    IF due THEN <<FpsEvent(avg), BitrateEvent(total), FrameEvent(size)>>
    ELSE <<FpsEvent(avg), FrameEvent(size)>>

\* The worker's step emits evs (signal.emit posts each to the GUI thread's
\* event queue and returns); opened: the step is a successful open.
Emit(evs, opened) ==
    LET st == Of(evs, "status")
        lastSt == CHOOSE i \in st : \A j \in st : j <= i
        nRes == Cardinality(Of(evs, "resolution"))
        on == {i \in st : evs[i].value}
        lastOn == CHOOSE i \in on : \A j \in on : j <= i
    IN /\ emitted' = evs
       /\ pending' = Min(pending + Cardinality(Of(evs, "frame")), MaxPending)
       /\ resDebt' = resDebt + (IF opened THEN 1 ELSE 0) - nRes
       /\ sessRes' = IF on # {}
                     THEN Cardinality({i \in Of(evs, "resolution") : i > lastOn})
                     ELSE Min(sessRes + nRes, 2)
       /\ lastStatus' = IF st = {} THEN lastStatus
                        ELSE IF evs[lastSt].value THEN "streaming" ELSE "disconnected"

\* the session's observers when no session is open
NoSession ==
    /\ sessFrames' = 0
    /\ sessSamples' = 0
    /\ winElapsed' = 0
    /\ sinceOpen' = 0
    /\ UNCHANGED admittedDt

\* while self._run_flag:  (both loops test the flag the same way)
LoopCond == run_flag

\* line 61: the outer while test
WhileOuter ==
    /\ pc = "while_outer"
    /\ IF LoopCond
       THEN /\ pc' = "opening"
            /\ opensAfterStop' = (opensAfterStop \/ guiPc \in {"in_wait", "stopped"})
       ELSE /\ pc' = "done"
            /\ UNCHANGED opensAfterStop
    /\ Emit(<<>>, FALSE)
    /\ UNCHANGED <<run_flag, fps_history, frame_count, total_size, capOpen,
                   sincePrev, sleepLeft>>
    /\ UNCHANGED <<sinceStop, stopAt, prevOpenFailed, sinceFail>>
    /\ UNCHANGED <<sessVars, guiVars, hsVars>>

\* lines 62-72: VideoCapture returns opened
OpenSucceeds ==
    /\ pc = "opening"
    /\ capOpen' = TRUE
    /\ sincePrev' = 0
    /\ frame_count' = 0
    /\ total_size' = 0
    /\ Emit(OpenEvents, TRUE)
    /\ pc' = "while_inner"
    /\ prevOpenFailed' = FALSE
    /\ NoSession
    /\ UNCHANGED <<run_flag, fps_history, sleepLeft>>
    /\ UNCHANGED <<sinceStop, stopAt, opensAfterStop, sinceFail>>
    /\ UNCHANGED <<guiVars, hsVars>>

\* msleep(1): the interval given in seconds
SleepTimeSeconds == BackoffMs \div 1000

\* the interval slept twice
SleepTimeTwice == BackoffMs + BackoffMs

\* self.msleep(1000)
SleepTime == BackoffMs

\* lines 62-63, 105-108: VideoCapture returns not opened
OpenFails ==
    /\ pc = "opening"
    /\ Emit(<<StatusEvent(FALSE)>>, FALSE)
    /\ sleepLeft' = SleepTime
    /\ pc' = "sleeping"
    /\ prevOpenFailed' = TRUE
    /\ sinceFail' = 0
    /\ UNCHANGED <<run_flag, fps_history, frame_count, total_size, capOpen, sincePrev>>
    /\ UNCHANGED <<sinceStop, stopAt, opensAfterStop>>
    /\ UNCHANGED <<sessVars, guiVars, hsVars>>

\* line 108: msleep returns once its time has elapsed, whatever the flag
SleepReturns ==
    /\ pc = "sleeping"
    /\ sleepLeft = 0
    /\ pc' = "while_outer"
    /\ Emit(<<>>, FALSE)
    /\ UNCHANGED <<run_flag, fps_history, frame_count, total_size, capOpen,
                   sincePrev, sleepLeft>>
    /\ UNCHANGED <<obsVars, sessVars, guiVars, hsVars>>

\* line 74: the inner while test; lines 103-104 when it fails
WhileInner ==
    /\ pc = "while_inner"
    /\ IF LoopCond
       THEN /\ pc' = "reading"
            /\ Emit(<<>>, FALSE)
            /\ UNCHANGED <<capOpen, sessVars>>
       ELSE /\ capOpen' = FALSE
            /\ Emit(<<StatusEvent(FALSE)>>, FALSE)
            /\ NoSession
            /\ pc' = "while_outer"
    /\ UNCHANGED <<run_flag, fps_history, frame_count, total_size, sincePrev, sleepLeft>>
    /\ UNCHANGED <<obsVars, guiVars, hsVars>>

\* lines 75-100: cap.read() returns a frame of `size` bytes
ReadFrame(size) ==
    /\ pc = "reading"
    /\ sincePrev > 0
    /\ LET hist == DequeAppend(fps_history, InstantFps(sincePrev))
           avg == AvgFps(hist)
           total == total_size + size
           count == frame_count + 1
           due == IntGeq(count, avg)
       IN /\ fps_history' = hist
          /\ Emit(FrameEvents(avg, total, size, due), FALSE)
          /\ frame_count' = IF due THEN 0 ELSE count
          /\ total_size' = IF due THEN 0 ELSE total
          /\ winElapsed' = IF due THEN 0 ELSE winElapsed + sincePrev
    /\ sessFrames' = Min(sessFrames + 1, 2)
    /\ sessSamples' = Min(sessSamples + 1, 2)
    /\ admittedDt' = IF Len(admittedDt) > fps_history_length
                     THEN Append(Tail(admittedDt), sincePrev)
                     ELSE Append(admittedDt, sincePrev)
    /\ sinceOpen' = IF sessFrames = 0 THEN sinceOpen ELSE 0
    /\ sincePrev' = 0
    /\ pc' = "while_inner"
    /\ UNCHANGED <<run_flag, capOpen, sleepLeft>>
    /\ UNCHANGED <<obsVars, guiVars, hsVars>>

\* lines 75-79: cap.read() returns a frame while time.time() still reads
\* prev_time: 1.0 / 0.0 raises ZeroDivisionError, which leaves run(); PyQt5
\* answers an exception that leaves a QThread's run() with qFatal(), and the
\* process aborts.
ReadFrameSameTime ==
    /\ pc = "reading"
    /\ sincePrev = 0
    /\ pc' = "crashed"
    /\ Emit(<<>>, FALSE)
    /\ UNCHANGED <<run_flag, fps_history, frame_count, total_size, capOpen,
                   sincePrev, sleepLeft>>
    /\ UNCHANGED <<obsVars, sessVars, guiVars, hsVars>>

\* lines 75, 101-104: cap.read() returns ret = False
ReadFails ==
    /\ pc = "reading"
    /\ capOpen' = FALSE
    /\ Emit(<<StatusEvent(FALSE)>>, FALSE)
    /\ NoSession
    /\ pc' = "while_outer"
    /\ UNCHANGED <<run_flag, fps_history, frame_count, total_size, sincePrev, sleepLeft>>
    /\ UNCHANGED <<obsVars, guiVars, hsVars>>

\* The blocking calls during which time passes.
Blocked ==
    \/ pc = "opening"
    \/ pc = "sleeping" /\ sleepLeft > 0
    \/ pc = "reading" /\ sincePrev < MaxInterval

\* The observers' clocks stop counting here.
ObsCap == BackoffMs + TickMs

\* Time passes up to the next deadline, at most TickMs at once.
TickLen ==
    IF pc = "sleeping" THEN Min(TickMs, sleepLeft)
    ELSE IF pc = "reading" THEN Min(TickMs, MaxInterval - sincePrev)
    ELSE TickMs

Tick ==
    /\ Blocked
    /\ sleepLeft' = IF pc = "sleeping" THEN sleepLeft - TickLen ELSE sleepLeft
    /\ sincePrev' = IF pc = "reading" THEN sincePrev + TickLen ELSE sincePrev
    /\ sinceStop' = IF guiPc = "in_wait" THEN Min(sinceStop + TickLen, ObsCap)
                    ELSE sinceStop
    /\ sinceFail' = IF prevOpenFailed THEN Min(sinceFail + TickLen, ObsCap)
                    ELSE sinceFail
    /\ sinceOpen' = IF pc = "reading" /\ sessFrames = 0 THEN sinceOpen + TickLen
                    ELSE sinceOpen
    /\ UNCHANGED <<run_flag, pc, fps_history, frame_count, total_size, capOpen, emitted>>
    /\ UNCHANGED <<stopAt, opensAfterStop, prevOpenFailed>>
    /\ UNCHANGED <<streamVars, pending, sessFrames, sessSamples, admittedDt, winElapsed>>
    /\ UNCHANGED <<guiVars, hsVars>>

Worker ==
    \/ WhileOuter
    \/ OpenSucceeds
    \/ OpenFails
    \/ SleepReturns
    \/ WhileInner
    \/ \E size \in FrameSizes : ReadFrame(size)
    \/ ReadFrameSameTime
    \/ ReadFails

\* ------------------------------------------------------------ main thread
\* lines 364-373: show the window, create the run_server task on the asyncio
\* loop, enter the Qt event loop.  Nothing runs the asyncio loop
\* (no run_forever / run_until_complete): the task stays pending.
MainStart ==
    /\ guiPc = "main"
    /\ pc # "crashed"
    /\ loop_tasks' = loop_tasks \cup {"run_server"}
    /\ guiPc' = "exec"
    /\ UNCHANGED <<loop_running, listening>>
    /\ UNCHANGED <<vtVars, obsVars, evVars, hsVars>>

\* lines 196-197 / 200-201 and 110-111: Quit or the window's close button
\* calls VideoThread.stop, which clears the flag and enters self.wait()
StopCall ==
    /\ guiPc = "exec"
    /\ pc # "crashed"
    /\ run_flag' = FALSE
    /\ guiPc' = "in_wait"
    /\ sinceStop' = 0
    /\ stopAt' = pc
    /\ UNCHANGED <<pc, fps_history, frame_count, total_size, capOpen,
                   sincePrev, sleepLeft, emitted>>
    /\ UNCHANGED <<loop_tasks, loop_running, listening>>
    /\ UNCHANGED <<opensAfterStop, prevOpenFailed, sinceFail>>
    /\ UNCHANGED <<evVars, hsVars>>

\* QThread.wait() returns once run() has returned
WaitDone == pc = "done"

\* line 112: self.wait() returns
StopReturn ==
    /\ guiPc = "in_wait"
    /\ WaitDone
    /\ guiPc' = "stopped"
    /\ UNCHANGED <<loop_tasks, loop_running, listening>>
    /\ UNCHANGED <<vtVars, obsVars, evVars, hsVars>>

\* lines 198 / 202, 373: the Qt loop ends and sys.exit runs
AppQuit ==
    /\ guiPc = "stopped"
    /\ guiPc' = "exited"
    /\ UNCHANGED <<loop_tasks, loop_running, listening>>
    /\ UNCHANGED <<vtVars, obsVars, evVars, hsVars>>

\* lines 204-206: the Qt loop delivers one queued frame signal to update_image
DeliverFrame ==
    /\ guiPc = "exec"
    /\ pc # "crashed"
    /\ pending > 0
    /\ pending' = pending - 1
    /\ UNCHANGED <<vtVars, guiVars, obsVars, streamVars, sessVars, hsVars>>

Main ==
    \/ MainStart
    \/ DeliverFrame
    \/ StopCall
    \/ StopReturn
    \/ AppQuit

\* ------------------------------------------------------ handshake listener
\* A run of bytes of client c's stream, by offsets [lo, hi).
Chunk(c, lo, hi) == [conn |-> c, lo |-> lo, hi |-> hi]
NoBytes == [conn |-> 0, lo |-> 0, hi |-> 0]
ChunkLen(b) == b.hi - b.lo

\* s1 = b'\x03' + os.urandom(1535)
ServerS1 == [lead |-> RtmpVersion, rnd |-> HandshakeSize - 1, src |-> NoBytes]
\* a write of bytes read from the client
Echo(b) == [lead |-> -1, rnd |-> 0, src |-> b]
WriteLen(w) == (IF w.lead >= 0 THEN 1 ELSE 0) + w.rnd + ChunkLen(w.src)

\* StreamReader.read(n): at most n bytes of what is buffered, b'' at EOF
ReaderRead(c, n) ==
    LET k == Min(n, rcvd[c] - consumed[c])
    IN IF k = 0 THEN NoBytes ELSE Chunk(c, consumed[c], consumed[c] + k)

\* read(n) returns (or raises) once data is buffered, EOF was fed or the
\* connection was lost
ReadReady(c) == net[c] # "open" \/ rcvd[c] > consumed[c]

\* assignment to a module-level name shared by every coroutine
StoreGlobal(f, c, v) == [x \in DOMAIN f |-> v]

\* assignment to a local of connection c's coroutine frame
StoreLocal(f, c, v) == [f EXCEPT ![c] = v]

\* lines 275-292: the event loop runs the run_server task
RunServer ==
    /\ loop_running
    /\ "run_server" \in loop_tasks
    /\ loop_tasks' = loop_tasks \ {"run_server"}
    /\ listening' = TRUE
    /\ UNCHANGED <<guiPc, loop_running>>
    /\ UNCHANGED <<vtVars, obsVars, evVars, hsVars>>

\* asyncio.start_server: a client connects, handle_client starts and runs up
\* to its first await (lines 251-256)
Accept(c) ==
    /\ listening
    /\ hpc[c] = "unconnected"
    /\ hpc' = [hpc EXCEPT ![c] = "read_c1"]
    /\ UNCHANGED <<net, segs, rcvd, consumed, c1, c2, writes, closed>>
    /\ UNCHANGED <<vtVars, obsVars, evVars, guiVars>>

\* lines 256-262: read(1536) returns, s1 is written and drained
ReadC1(c) ==
    /\ hpc[c] = "read_c1"
    /\ ReadReady(c)
    /\ IF net[c] = "lost"
       THEN /\ hpc' = [hpc EXCEPT ![c] = "raised"]
            /\ UNCHANGED <<consumed, c1, writes>>
       ELSE LET data == ReaderRead(c, HandshakeSize)
            IN /\ c1' = StoreLocal(c1, c, data)
               /\ consumed' = [consumed EXCEPT ![c] = @ + ChunkLen(data)]
               /\ writes' = [writes EXCEPT ![c] = Append(@, ServerS1)]
               /\ hpc' = [hpc EXCEPT ![c] = "read_c2"]
    /\ UNCHANGED <<net, segs, rcvd, c2, closed>>
    /\ UNCHANGED <<vtVars, obsVars, evVars, guiVars>>

\* lines 262-269: read(1536) returns, s2 = c1 is written and drained
ReadC2(c) ==
    /\ hpc[c] = "read_c2"
    /\ ReadReady(c)
    /\ IF net[c] = "lost"
       THEN /\ hpc' = [hpc EXCEPT ![c] = "raised"]
            /\ UNCHANGED <<consumed, c2, writes>>
       ELSE LET data == ReaderRead(c, HandshakeSize)
            IN /\ c2' = StoreLocal(c2, c, data)
               /\ consumed' = [consumed EXCEPT ![c] = @ + ChunkLen(data)]
               /\ writes' = [writes EXCEPT ![c] = Append(@, Echo(c1[c]))]
               /\ hpc' = [hpc EXCEPT ![c] = "read_chunk"]
    /\ UNCHANGED <<net, segs, rcvd, c1, closed>>
    /\ UNCHANGED <<vtVars, obsVars, evVars, guiVars>>

\* lines 268-271: chunk_header = await reader.read(1); break on b''.
\* read(1) does not suspend while bytes are buffered: the loop takes every
\* buffered byte, one per iteration, before the coroutine awaits again.
ReadChunk(c) ==
    /\ hpc[c] = "read_chunk"
    /\ ReadReady(c)
    /\ IF net[c] = "lost"
       THEN /\ hpc' = [hpc EXCEPT ![c] = "raised"]
            /\ UNCHANGED consumed
       ELSE LET data == ReaderRead(c, 1)
            IN /\ consumed' = [consumed EXCEPT ![c] =
                                 IF data = NoBytes THEN @ ELSE rcvd[c]]
               /\ hpc' = [hpc EXCEPT ![c] = IF data = NoBytes THEN "returned"
                                             ELSE "read_chunk"]
    /\ UNCHANGED <<net, segs, rcvd, c1, c2, writes, closed>>
    /\ UNCHANGED <<vtVars, obsVars, evVars, guiVars>>

\* the peer: the client's next segment reaches the reader's buffer
ClientSend(c) ==
    /\ hpc[c] # "unconnected"
    /\ net[c] = "open"
    /\ segs[c] < Len(ClientSegments)
    /\ segs' = [segs EXCEPT ![c] = @ + 1]
    /\ rcvd' = [rcvd EXCEPT ![c] = @ + ClientSegments[segs[c] + 1]]
    /\ UNCHANGED <<hpc, net, consumed, c1, c2, writes, closed>>
    /\ UNCHANGED <<vtVars, obsVars, evVars, guiVars>>

\* the peer closes its sending side: the reader is fed EOF
ClientEof(c) ==
    /\ hpc[c] # "unconnected"
    /\ net[c] = "open"
    /\ net' = [net EXCEPT ![c] = "eof"]
    /\ UNCHANGED <<hpc, segs, rcvd, consumed, c1, c2, writes, closed>>
    /\ UNCHANGED <<vtVars, obsVars, evVars, guiVars>>

\* the connection is reset: the reader's exception is set
ConnLost(c) ==
    /\ hpc[c] # "unconnected"
    /\ net[c] \in {"open", "eof"}
    /\ net' = [net EXCEPT ![c] = "lost"]
    /\ closed' = [closed EXCEPT ![c] = TRUE]
    /\ UNCHANGED <<hpc, segs, rcvd, consumed, c1, c2, writes>>
    /\ UNCHANGED <<vtVars, obsVars, evVars, guiVars>>

Listener ==
    \/ RunServer
    \/ \E c \in Conns : Accept(c)
    \/ \E c \in Conns : ReadC1(c)
    \/ \E c \in Conns : ReadC2(c)
    \/ \E c \in Conns : ReadChunk(c)
    \/ \E c \in Conns : ClientSend(c)
    \/ \E c \in Conns : ClientEof(c)
    \/ \E c \in Conns : ConnLost(c)

\* --------------------------------------------------------- specifications
InitVT ==
    /\ run_flag = TRUE
    /\ pc = "while_outer"
    /\ fps_history = <<>>
    /\ frame_count = 0
    /\ total_size = 0
    /\ capOpen = FALSE
    /\ sincePrev = 0
    /\ sleepLeft = 0
    /\ emitted = <<>>
    /\ guiPc = "main"
    /\ sinceStop = 0
    /\ stopAt = "none"
    /\ opensAfterStop = FALSE
    /\ prevOpenFailed = FALSE
    /\ sinceFail = 0
    /\ pending = 0
    /\ resDebt = 0
    /\ sessRes = 0
    /\ lastStatus = "none"
    /\ sessFrames = 0
    /\ sessSamples = 0
    /\ admittedDt = <<>>
    /\ winElapsed = 0
    /\ sinceOpen = 0

InitConns ==
    /\ hpc = [c \in Conns |-> "unconnected"]
    /\ net = [c \in Conns |-> "open"]
    /\ segs = [c \in Conns |-> 0]
    /\ rcvd = [c \in Conns |-> 0]
    /\ consumed = [c \in Conns |-> 0]
    /\ c1 = [c \in Conns |-> NoBytes]
    /\ c2 = [c \in Conns |-> NoBytes]
    /\ writes = [c \in Conns |-> <<>>]
    /\ closed = [c \in Conns |-> FALSE]

\* The application as __main__ starts it: MainWindow constructed, the
\* VideoThread started, the asyncio loop created and not running.
Init ==
    /\ InitVT
    /\ InitConns
    /\ loop_tasks = {}
    /\ loop_running = FALSE
    /\ listening = FALSE

\* The steps of the threads that run: the main thread and the VideoThread.
Next == Worker \/ Main \/ Tick

Spec == Init /\ [][Next]_vars

\* Every blocking call of the worker returns and the worker is scheduled;
\* the main thread runs; the user is not obliged to quit.
FairSpec ==
    /\ Spec
    /\ WF_vars(Worker)
    /\ WF_vars(Tick)
    /\ WF_vars(MainStart)
    /\ WF_vars(StopReturn)
    /\ WF_vars(AppQuit)

\* The listener under a running asyncio event loop with the run_server task
\* scheduled on it.
InitHS ==
    /\ InitVT
    /\ InitConns
    /\ loop_tasks = {"run_server"}
    /\ loop_running = TRUE
    /\ listening = FALSE

NextHS == Listener

SpecHS == InitHS /\ [][NextHS]_vars

\* ------------------------------------------------------------------ claims
\* handle_client has passed the handshake (line 268)
Established(c) == hpc[c] \in {"read_chunk", "returned"}
ClientHello(c) == Chunk(c, 0, HandshakeSize)

\* C1: on a connection whose client has sent a full 1536-byte hello and a
\* full 1536-byte ack, an established handler has made exactly two writes,
\* each of 1536 bytes: the server reply, then the echo of the client hello.
C1_FullHandshakeEchoesHello ==
    \A c \in Conns :
        (Established(c) /\ rcvd[c] >= 2 * HandshakeSize) =>
            /\ Len(writes[c]) = 2
            /\ \A i \in 1..2 : WriteLen(writes[c][i]) = HandshakeSize
            /\ writes[c][1] = ServerS1
            /\ writes[c][2] = Echo(ClientHello(c))

\* C2: when the read of the hello returns fewer than 1536 bytes, the server
\* writes nothing on the connection, reads nothing more from it and never
\* treats it as established.
C2_ShortHelloAborts ==
    \A c \in Conns :
        (hpc[c] \notin {"unconnected", "read_c1"} /\ ChunkLen(c1[c]) < HandshakeSize) =>
            /\ writes[c] = <<>>
            /\ hpc[c] \notin {"read_c2", "read_chunk", "returned"}

\* C3: when the hello was read in full and the read of the ack returns fewer
\* than 1536 bytes, the server does not make its second write and the
\* connection is never established.
C3_ShortAckAborts ==
    \A c \in Conns :
        (/\ hpc[c] \notin {"unconnected", "read_c1", "read_c2"}
         /\ ChunkLen(c1[c]) = HandshakeSize
         /\ ChunkLen(c2[c]) < HandshakeSize) =>
            /\ Len(writes[c]) <= 1
            /\ ~Established(c)

\* what the server holds for connection c
ConnState(c) == <<hpc[c], consumed[c], c1[c], c2[c], writes[c]>>
\* every byte the server holds or has written for connection c that came
\* from a client came from c's own client
OwnBytes(c) ==
    /\ c1[c].conn \in {0, c}
    /\ c2[c].conn \in {0, c}
    /\ \A i \in 1..Len(writes[c]) : writes[c][i].src.conn \in {0, c}

StopInvoked == guiPc \in {"in_wait", "stopped", "exited"}

\* C5: once the application runs its event loop, the listener eventually
\* binds (the run_server task created at startup is executed), unless the
\* application has been quit or has aborted before.
C5_ListenerEventuallyBinds ==
    (guiPc = "exec") ~> (listening \/ guiPc # "exec" \/ pc = "crashed")

\* C6: VideoThread.run is left only after stop() has been invoked.
C6_RunEndsOnlyAfterStop == pc \in {"done", "crashed"} => StopInvoked

\* C7: an open attempt that follows a failed one starts no sooner than one
\* backoff interval after the failure, and a failed open emits
\* status=Disconnected before the wait.
C7_BackoffBetweenOpens ==
    /\ (pc = "opening" /\ prevOpenFailed) => sinceFail >= BackoffMs
    /\ pc = "sleeping" => emitted = <<StatusEvent(FALSE)>>

\* C7: a second open attempt is under way after a failed one.
C7_Witness == pc = "opening" /\ prevOpenFailed /\ sinceFail >= BackoffMs

\* C8: when stop() is invoked during the backoff wait, the worker has exited
\* once one backoff interval has passed since the call, and it starts no
\* open attempt after the call.
C8_StopDuringBackoff ==
    stopAt = "sleeping" =>
        /\ ~opensAfterStop
        /\ pc \in {"sleeping", "while_outer", "done"}
        /\ pc # "done" => sinceStop <= BackoffMs
        /\ (pc # "done" /\ sinceStop = BackoffMs) => ~Blocked

\* C8: stop() was invoked in the middle of the wait and the worker has
\* exited after the rest of it.
C8_Witness == stopAt = "sleeping" /\ pc = "done" /\ sinceStop > 0

\* C9: when stop() is invoked during the backoff wait, the wait ends at
\* once: no time passes with the worker still in the wait.
C9_StopInterruptsWait ==
    (stopAt = "sleeping" /\ pc = "sleeping") => sinceStop = 0

\* C10: stop() always completes: once invoked, it returns.
C10_StopCompletes == (guiPc = "in_wait") ~> (guiPc = "stopped")

\* C11: the resolution signal is emitted exactly once per successful open -
\* the resolution events so far are as many as the successful opens - and
\* it comes right after that session's status=True signal, before any frame
\* signal of the session, and never with a frame.
C11_ResolutionOncePerOpen ==
    /\ resDebt = 0
    /\ capOpen => sessRes = 1
    /\ Has(emitted, "resolution") =>
          /\ Len(emitted) = 2
          /\ emitted[1] = [type |-> "status", value |-> TRUE]
          /\ emitted[2].type = "resolution"
    /\ Has(emitted, "frame") => sessRes = 1 /\ ~Has(emitted, "resolution")

\* a session that has delivered its second frame
C11_Witness == capOpen /\ sessFrames = 2 /\ Has(emitted, "frame") /\ sessRes = 1

\* the rates of the latest n admitted intervals, oldest first
RecentRates(n) ==
    [i \in 1..n |-> Rat(1000, admittedDt[Len(admittedDt) - n + i])]

\* C12: the FPS window never holds more than fps_history_length samples, and
\* it holds the most recent min(k, fps_history_length) of the k samples
\* admitted so far, in arrival order - so a sample admitted to a full window
\* evicts exactly the oldest one.
C12_WindowHoldsLatest ==
    /\ Len(fps_history) <= fps_history_length
    /\ fps_history = RecentRates(Min(Len(admittedDt), fps_history_length))

\* more samples admitted than the window holds, the evicted one unlike the newest
C12_Witness ==
    /\ Len(admittedDt) > fps_history_length
    /\ admittedDt[1] # Last(admittedDt)
    /\ Len(fps_history) = fps_history_length

RECURSIVE Total(_)
\* the sum of a sequence of integers
Total(q) == IF q = <<>> THEN 0 ELSE Head(q) + Total(Tail(q))

BitrateStep == pc = "reading" /\ pc' = "while_inner" /\ Has(emitted', "bitrate")

\* the bits accumulated by the window that such a step closes
WindowBits == (total_size + The(emitted', "frame").value) * 8

\* the bitrate signal carries v in the unit u
BitrateIs(ev, v, u) == ev.value = v /\ ev.unit = u

C15_PendingBounded == pending < MaxPending

\* handle_client is over for connection c: it returned or an exception ended it
Finished(c) == hpc[c] \in {"returned", "raised"}

\* C16: every connection that ends is closed on the server side - when
\* handle_client has finished, by return or by exception, the connection's
\* writer/transport has been closed.
C16_FinishedIsClosed == \A c \in Conns : Finished(c) => closed[c]

\* C17: when a frame of a session carries the same timestamp as the frame
\* before it, the worker raises no error: it skips the sample and goes on
\* with the session.
C17_ZeroIntervalNoError == (capOpen /\ sessFrames >= 1) => pc # "crashed"

\* C18 as stated: the first frame read in a session admits no sample into the
\* FPS window and triggers no FPS signal; the session's first sample comes
\* with its second frame.
C18_FirstFrameSeedsOnly ==
    (capOpen /\ sessFrames = 1) => (sessSamples = 0 /\ ~Has(emitted, "fps"))

\* C18: the first frame read in a session admits a sample, the rate of the
\* interval from the open (where prev_time is set) to the frame's arrival,
\* and triggers an FPS signal.
C18_FirstFrameAdmitsSample ==
    (capOpen /\ sessFrames = 1) =>
        /\ sessSamples = 1
        /\ fps_history # <<>>
        /\ Last(fps_history) = Rat(1000, sinceOpen)
        /\ pc = "while_inner" => Has(emitted, "fps")

\* the first frame of a session has just been handled
C18_Witness ==
    /\ capOpen /\ sessFrames = 1
    /\ pc = "while_inner"
    /\ Has(emitted, "frame")

\* the value of a bitrate signal in kbps, whichever unit it carries
KbpsOf(ev) == IF ev.unit = "Mbps" THEN Rat(ev.value.n * 1000, ev.value.d) ELSE ev.value

\* C19: a bitrate signal is emitted only when the accumulated frame count
\* has reached the current average FPS, never for a window of no frames; its
\* value in kbps is the accumulated bytes times 8 over the milliseconds
\* elapsed since the accumulators were last reset, whatever the length of
\* the window; after the emission both accumulators are zero.
C19_BitrateOverElapsedTime ==
    [][BitrateStep =>
          /\ frame_count + 1 > 0
          /\ IntGeq(frame_count + 1, The(emitted', "fps").value)
          /\ KbpsOf(The(emitted', "bitrate")) = Rat(WindowBits, winElapsed + sincePrev)
          /\ frame_count' = 0
          /\ total_size' = 0]_vars

\* the worker has left run(): by returning or by an exception
WorkerExited == pc \in {"done", "crashed"}

\* C20: status signals are well nested in every run, stop() included: a
\* Streaming signal is never followed by another Streaming without a
\* Disconnected in between, the source is released before the next open
\* attempt, and when the worker exits the source is released and the last
\* status signal, if there was one, is Disconnected.
C20_StatusWellNested ==
    [][/\ (pc' # pc /\ Has(emitted', "status") /\ The(emitted', "status").value)
             => lastStatus # "streaming"
       /\ pc' = "opening" => ~capOpen'
       /\ WorkerExited' => (~capOpen' /\ lastStatus' # "streaming")]_vars

====
